---- MODULE Spec2Model ----
(***************************************************************************)
(* A model of confluence-fetcher: the paginated fetchers of                *)
(* confluence_client.py (ConfluenceClient._paginated_get) and              *)
(* confluence_fetcher.py (get_spaces, get_pages_for_space,                 *)
(* get_page_attachments), and the export driver of confluence_fetcher.py   *)
(* (main, export_page_content).                                            *)
(*                                                                         *)
(* Strings that the code takes apart (URL paths, names, key lists) are     *)
(* sequences of tokens; a token is a run of characters the code never      *)
(* splits.                                                                 *)
(***************************************************************************)
EXTENDS Naturals, Integers, Sequences, FiniteSets, TLC

\* ------------------------------------------------------------------ bounds
\* The longest listing a server holds, the most responses it spreads one
\* listing over.
MaxItems == 3
MaxPages == 3

\* ------------------------------------------------------------- python values
\* A string is a sequence of tokens. None, and a key that a JSON object does
\* not hold, where a string may stand.
None == <<"<None>">>
NoKey == <<"<NoKey>">>

\* Python truthiness of a value that is None or a string.
Truthy(v) == v # None /\ v # NoKey /\ v # <<>>

\* dict.get(key, default) on a string field that may be missing.
Get(v, default) == IF v = NoKey THEN default ELSE v

\* A list or None, as a function returns it.
PyList(l) == [none |-> FALSE, list |-> l]
PyNone == [none |-> TRUE, list |-> <<>>]
TruthyList(v) == ~v.none /\ v.list # <<>>

IsPrefix(p, s) == Len(p) <= Len(s) /\ SubSeq(s, 1, Len(p)) = p

\* str.removeprefix
RemovePrefix(s, p) == IF IsPrefix(p, s) THEN SubSeq(s, Len(p) + 1, Len(s)) ELSE s

\* ----------------------------------------------------------------- the server
\* The path of the API root, "/wiki/api/v2", under the account's host.
ApiPrefix == <<"/wiki", "/api", "/v2">>

\* A server listing: page[i] is the response it gives at the path addr[i];
\* any other path is answered 404. A response is
\*   [kind: "ok", status, hasResults, results, next: a path, None or NoKey]
\*                                 hasResults: the body holds a "results" key
\*   [kind: "http", status]        a non-2xx status: raise_for_status raises HTTPError
\*   [kind: "transport", status]   no response at all: a RequestException
OkPage(hasResults, results, next) ==
    [kind |-> "ok", status |-> 200, hasResults |-> hasResults, results |-> results,
     next |-> next]
HttpError(status) ==
    [kind |-> "http", status |-> status, hasResults |-> FALSE, results |-> <<>>,
     next |-> NoKey]
TransportError ==
    [kind |-> "transport", status |-> 0, hasResults |-> FALSE, results |-> <<>>,
     next |-> NoKey]

Serve(srv, path) ==
    IF \E i \in 1..Len(srv.addr) : srv.addr[i] = path
    THEN srv.page[CHOOSE i \in 1..Len(srv.addr) : srv.addr[i] = path]
    ELSE HttpError(404)

\* -------------------------------------------------------- paginated fetchers
\* A fetch in progress:
\*   impl    "functional" (confluence_fetcher.py) or "client" (ConfluenceClient)
\*   url     what the next request is made for: the URL's path (functional),
\*           the endpoint relative to the API root (client); None past the end
\*   acc     the items accumulated so far (pages / spaces / attachments / results)
\*   state   "loop", "returned" or "raised"
\*   value   what is returned: a list, or None
\*   status  the status_code of the ConfluenceAPIError raised (-1: none raised)
\*   reqs    the paths of the URLs requested so far
\*   kwargs  the request parameters the caller gave (_paginated_get's **kwargs)
\*   sent    the request parameters sent with each request so far
NoParams == {}
Fetching(impl, url, kwargs) ==
    [impl |-> impl, url |-> url, acc |-> <<>>, state |-> "loop",
     value |-> PyNone, status |-> -1, reqs |-> <<>>, kwargs |-> kwargs, sent |-> <<>>]

\* ConfluenceClient._build_url: the endpoint under the base URL's own path.
BuildUrl(endpoint) == ApiPrefix \o endpoint

\* f"https://{account_name}.atlassian.net{next_path}": the link is the path.
FnNextUrl(next_path) == next_path

\* get_spaces / get_pages_for_space / get_page_attachments before the loop.
FnStart(endpoint) == Fetching("functional", ApiPrefix \o endpoint, NoParams)

\* FnOnError as if the except clause returned the list built so far.
FnOnError_Partial(f) == [f EXCEPT !.state = "returned", !.value = PyList(f.acc)]

\* What the functional fetchers do when a request raises RequestException.
FnOnError(f) == [f EXCEPT !.state = "returned", !.value = PyNone]

\* Extend as if the list were assigned, not extended.
Extend_Assign(acc, data) == IF data.hasResults THEN data.results ELSE <<>>

\* The list the loop holds after a response's results are appended.
Extend(acc, data) == acc \o (IF data.hasResults THEN data.results ELSE <<>>)

\* One turn of `while url:` in the functional fetchers, and the loop's exit.
FnIter(f, srv) ==
    LET resp == Serve(srv, f.url)
        g == [f EXCEPT !.reqs = Append(@, f.url), !.sent = Append(@, NoParams)]
    IN  IF resp.kind # "ok"
        THEN FnOnError(g)
        ELSE LET acc == Extend(g.acc, resp)
                 next_path == Get(resp.next, None)
                 url == IF Truthy(next_path) THEN FnNextUrl(next_path) ELSE None
             IN  IF Truthy(url)
                 THEN [g EXCEPT !.acc = acc, !.url = url]
                 ELSE [g EXCEPT !.acc = acc, !.url = url,
                                !.state = "returned", !.value = PyList(acc)]

RECURSIVE FnRun(_, _)
FnRun(f, srv) == IF f.state = "loop" THEN FnRun(FnIter(f, srv), srv) ELSE f

\* A functional fetcher, from its call to its return.
FnFetch(endpoint, srv) == FnRun(FnStart(endpoint), srv)

\* ConfluenceClient._paginated_get before the loop.
ClStart(endpoint, kwargs) == Fetching("client", endpoint, kwargs)

\* ConfluenceClient._make_request: the ConfluenceAPIError a failed request
\* becomes (HTTPError: the response's status; any other RequestException: 0).
ClOnError(f, resp) ==
    [f EXCEPT !.state = "raised",
              !.status = IF resp.kind = "http" THEN resp.status ELSE 0]

\* The endpoint _paginated_get derives from a next link.
ClNextUrl(next_path) == RemovePrefix(next_path, ApiPrefix)

\* One turn of `while next_url:` in _paginated_get, and the loop's exit.
ClIter(f, srv) ==
    LET path == BuildUrl(f.url)
        resp == Serve(srv, path)
        g == [f EXCEPT !.reqs = Append(@, path), !.sent = Append(@, f.kwargs)]
    IN  IF resp.kind # "ok"
        THEN ClOnError(g, resp)
        ELSE LET acc == Extend(g.acc, resp)
                 next_path == Get(resp.next, None)
                 next_url == IF Truthy(next_path) THEN ClNextUrl(next_path) ELSE None
             IN  IF Truthy(next_url)
                 THEN [g EXCEPT !.acc = acc, !.url = next_url]
                 ELSE [g EXCEPT !.acc = acc, !.url = next_url,
                                !.state = "returned", !.value = PyList(acc)]

RECURSIVE ClRun(_, _)
ClRun(f, srv) == IF f.state = "loop" THEN ClRun(ClIter(f, srv), srv) ELSE f

\* _paginated_get, from its call by a fetcher of the client to its end.
ClFetch(endpoint, srv) == ClRun(ClStart(endpoint, NoParams), srv)

\* ------------------------------------------------- the listings a server holds
SeqSum(s) == LET RECURSIVE Sum(_)
                 Sum(i) == IF i = 0 THEN 0 ELSE s[i] + Sum(i - 1)
             IN  Sum(Len(s))

\* The ways to spread n items over k responses (a response may be empty).
Splits(n, k) == {s \in [1..k -> 0..n] : SeqSum(s) = n}

\* The next link of a listing's i-th response: under the API root as Confluence
\* gives it ("api"), a path outside the API root ("bare"), or the API root
\* under a context path ("inner").
LinkStyles == {"api", "bare", "inner"}
Link(endpoint, style, i) ==
    (IF style = "api" THEN ApiPrefix
     ELSE IF style = "bare" THEN <<"/wiki", "/rest">>
     ELSE <<"/ctx">> \o ApiPrefix)
        \o endpoint \o <<"?cursor=" \o ToString(i)>>

\* The listing of `items` at `endpoint`, spread as `sizes` says, the i-th
\* response reached by a link of style styles[i], the last response's next
\* link being `lastNext`, an empty response holding a results key or not
\* (`emptyKey`), and the
\* failAt-th request (0: none) answered by `err`.
Listing(endpoint, items, sizes, styles, lastNext, emptyKey, failAt, err) ==
    LET K == Len(sizes)
        addr == [i \in 1..K |-> IF i = 1 THEN ApiPrefix \o endpoint
                                         ELSE Link(endpoint, styles[i], i)]
        from(i) == SeqSum(SubSeq(sizes, 1, i - 1))
        chunk(i) == SubSeq(items, from(i) + 1, from(i) + sizes[i])
    IN  [addr |-> addr,
         page |-> [i \in 1..K |->
                     IF i = failAt THEN err
                     ELSE OkPage(sizes[i] > 0 \/ emptyKey, chunk(i),
                                 IF i < K THEN addr[i + 1] ELSE lastNext)],
         items |-> items,
         failAt |-> failAt]

Errors == {HttpError(500), HttpError(404), TransportError}

\* The requests of a listing of k responses that may fail, and how: none (0),
\* or one of them with one of the errors.
Failures(k) ==
    {[at |-> 0, err |-> TransportError]} \cup [at : 1..k, err : Errors]

\* ------------------------------------------------------------ names and paths
\* A name is a sequence of characters, a path a sequence of names.
BadChars == {"<", ">", ":", "\"", "/", "\\", "|", "?", "*"}

\* Sanitize as if the spaces were left as they are.
Sanitize_KeepSpaces(name) ==
    [i \in 1..Len(name) |-> IF name[i] \in BadChars THEN "_" ELSE name[i]]

\* sanitize_directory_name: re.sub of the invalid characters, then the spaces.
Sanitize(name) ==
    LET subbed == [i \in 1..Len(name) |-> IF name[i] \in BadChars THEN "_" ELSE name[i]]
    IN  [i \in 1..Len(subbed) |-> IF subbed[i] = " " THEN "_" ELSE subbed[i]]

\* The names between the "/" of a relative path given as a string.
RECURSIVE Segments(_)
Segments(name) ==
    IF name = <<>> THEN <<>>
    ELSE IF \E i \in 1..Len(name) : name[i] = "/"
         THEN LET i == CHOOSE k \in 1..Len(name) :
                           name[k] = "/" /\ \A j \in 1..(k - 1) : name[j] # "/"
              IN  (IF i = 1 THEN <<>> ELSE <<SubSeq(name, 1, i - 1)>>)
                      \o Segments(SubSeq(name, i + 1, Len(name)))
         ELSE <<name>>

\* os.path.join(dir, name).
JoinPath(dir, name) == dir \o Segments(name)

Parent(path) == SubSeq(path, 1, Len(path) - 1)

\* The file system: the directories, and the files with what they hold:
\*   [path, kind: "attachment" | "markdown", complete, src, body]
\*   src   the download link an attachment was read from
\*   body  the text a page.md was given
NoFiles == [dirs |-> {}, files |-> {}]

IsFile(fs, path) == \E f \in fs.files : f.path = path

\* os.makedirs(path, exist_ok=True): the directory and every missing ancestor.
MakeDirs(fs, path) ==
    [fs EXCEPT !.dirs = @ \cup {SubSeq(path, 1, n) : n \in 1..Len(path)}]

\* Where the file system finds a path: a ".." name leads to the parent of
\* the directory before it.
RECURSIVE Resolve(_)
Resolve(path) ==
    IF path = <<>> THEN <<>>
    ELSE LET dir == Resolve(Parent(path))
         IN  IF path[Len(path)] = <<"..">> THEN Parent(dir) ELSE Append(dir, path[Len(path)])

\* Whether open(path, 'w' / 'wb') succeeds: every name before the last leads
\* to a directory (the working directory is one) and the path is not a
\* directory; otherwise it raises OSError.
CanOpen(fs, path) ==
    /\ \A n \in 1..(Len(path) - 1) : Resolve(SubSeq(path, 1, n)) \in fs.dirs \cup {<<>>}
    /\ Resolve(path) \notin fs.dirs

\* The file system once `path` holds `data`, whatever it held.
WriteFile(fs, path, data) ==
    [fs EXCEPT !.files = {f \in @ : f.path # Resolve(path)}
                             \cup {[data EXCEPT !.path = Resolve(path)]}]

AttachmentData(link, complete) ==
    [path |-> <<>>, kind |-> "attachment", complete |-> complete, src |-> link,
     body |-> <<>>]
MarkdownData(text) ==
    [path |-> <<>>, kind |-> "markdown", complete |-> TRUE, src |-> <<>>, body |-> text]

\* ------------------------------------------------------------- page content
\* A string or None, as a function returns it.
PyStr(t) == [none |-> FALSE, text |-> t]
PyNoStr == [none |-> TRUE, text |-> <<>>]
TruthyStr(v) == ~v.none /\ v.text # <<>>

\* An HTML document is a sequence of tags [name, src, href]; an attribute is a
\* URL (a sequence of characters and words) or NoKey when the tag has none.
Marker == <<"/", "download", "/", "attachments", "/">>

Contains(str, sub) ==
    \E i \in 0..(Len(str) - Len(sub)) : SubSeq(str, i + 1, i + Len(sub)) = sub

\* BeforeQuery as if the query string were kept.
BeforeQuery_Keep(link) == link

\* link.split('?')[0]
BeforeQuery(link) ==
    IF \E i \in 1..Len(link) : link[i] = "?"
    THEN SubSeq(link, 1, (CHOOSE i \in 1..Len(link) :
                            link[i] = "?" /\ \A j \in 1..(i - 1) : link[j] # "?") - 1)
    ELSE link

\* os.path.basename
Basename(path) ==
    IF \E i \in 1..Len(path) : path[i] = "/"
    THEN SubSeq(path, (CHOOSE i \in 1..Len(path) :
                         path[i] = "/" /\ \A j \in (i + 1)..Len(path) : path[j] # "/") + 1,
                Len(path))
    ELSE path

LocalLink(link) == <<"attachments", "/">> \o Basename(BeforeQuery(link))

RewriteTag(tag) ==
    IF tag.name = "img" /\ tag.src # NoKey /\ Contains(tag.src, Marker)
    THEN [tag EXCEPT !.src = LocalLink(tag.src)]
    ELSE IF tag.name = "a" /\ tag.href # NoKey /\ Contains(tag.href, Marker)
         THEN [tag EXCEPT !.href = LocalLink(tag.href)]
         ELSE tag

\* rewrite_links
RewriteLinks(html) == [i \in 1..Len(html) |-> RewriteTag(html[i])]

\* What pandoc prints for a document it converts.
Pandoc(html) == [i \in 1..Len(html) |-> [html[i] EXCEPT !.name = "md:" \o @]]

\* HtmlToMarkdown as if subprocess.run were called without check=True: what
\* pandoc printed before it failed is returned.
HtmlToMarkdown_Unchecked(html, outcome) ==
    IF outcome = "ok" THEN PyStr(Pandoc(html))
    ELSE IF outcome = "ok_empty" THEN PyStr(<<>>)
    ELSE IF outcome = "exit_nonzero" THEN PyStr(SubSeq(Pandoc(html), 1, 1))
    ELSE PyNoStr

\* html_to_markdown, given how the pandoc process ends: "ok", "ok_empty" (it
\* prints nothing), "exit_nonzero" (CalledProcessError), "not_found"
\* (FileNotFoundError).
PandocOutcomes == {"ok", "ok_empty", "exit_nonzero", "not_found"}
HtmlToMarkdown(html, outcome) ==
    IF outcome = "ok" THEN PyStr(Pandoc(html))
    ELSE IF outcome = "ok_empty" THEN PyStr(<<>>)
    ELSE PyNoStr

\* ------------------------------------------------------------ the space filter
\* str.split(',')
RECURSIVE SplitComma(_)
SplitComma(str) ==
    IF \E i \in 1..Len(str) : str[i] = ","
    THEN LET i == CHOOSE k \in 1..Len(str) :
                      str[k] = "," /\ \A j \in 1..(k - 1) : str[j] # ","
         IN  <<SubSeq(str, 1, i - 1)>> \o SplitComma(SubSeq(str, i + 1, Len(str)))
    ELSE <<str>>

\* Strip as if the keys were not trimmed.
Strip_Not(str) == str

\* str.strip()
RECURSIVE Strip(_)
Strip(str) ==
    IF str # <<>> /\ str[1] = " " THEN Strip(Tail(str))
    ELSE IF str # <<>> /\ str[Len(str)] = " " THEN Strip(SubSeq(str, 1, Len(str) - 1))
    ELSE str

SelectedKeys(arg) == LET parts == SplitComma(arg)
                     IN  {Strip(parts[i]) : i \in 1..Len(parts)}

RECURSIVE SelectSeq2(_, _)
SelectSeq2(seq, keys) ==
    IF seq = <<>> THEN <<>>
    ELSE (IF Head(seq).key \in keys THEN <<Head(seq)>> ELSE <<>>)
             \o SelectSeq2(Tail(seq), keys)

\* main, lines 218-220: the spaces the run goes through.
FilterSpaces(list, arg) ==
    IF Truthy(arg) THEN SelectSeq2(list, SelectedKeys(arg)) ELSE list

\* ------------------------------------------------------------------- the wiki
\* The wiki the server holds is drawn from these: spaces [id, key, name] (one
\* without an id; two whose names sanitize alike), pages [id, title] (one
\* without a title) and attachments [title, link] (one without a title, one
\* without a download link, one whose title names a file in a subdirectory,
\* one whose title names a file two directories up).
SpaceCatalog ==
    << [id |-> <<"1">>, key |-> <<"E">>, name |-> <<"M", ":", "S">>],
       [id |-> NoKey, key |-> <<"O">>, name |-> <<"A", " ", "B">>],
       [id |-> <<"3">>, key |-> <<"D">>, name |-> <<"A", "_", "B">>] >>
PageCatalog ==
    << [id |-> <<"11">>, title |-> NoKey],
       [id |-> <<"10">>, title |-> <<"P", "/", "1">>],
       [id |-> <<"12">>, title |-> <<"P", "_", "1">>] >>
AttachmentCatalog ==
    << [title |-> <<"h.png">>, link |-> NoKey],
       [title |-> <<"d", "/", "g.png">>, link |-> <<"/download", "/g.png">>],
       [title |-> <<"f.png">>, link |-> <<"/download", "/f.png">>],
       [title |-> <<"..", "/", "..", "/", "t.png">>, link |-> <<"/download", "/t.png">>],
       [title |-> NoKey, link |-> <<"/download", "/x">>] >>

\* The storage-format body of every page that has one.
PageBody ==
    << [name |-> "img", href |-> NoKey,
        src |-> <<"https:", "/", "/", "host", "/", "download", "/", "attachments",
                  "/", "123", "/", "f.png", "?", "x=1">>],
       [name |-> "a", src |-> NoKey, href |-> <<"https:", "/", "/", "host", "/", "about">>] >>

\* The most spaces the wiki holds, and the most pages and attachments it holds
\* in all its spaces together.
MaxSpaces == 3
MaxWikiPages == 2
MaxWikiAttachments == 2

\* The listings of at most `max` items that follow one another in a catalogue.
Runs(catalog, max) ==
    {SubSeq(catalog, i, j) : i \in 1..(Len(catalog) + 1), j \in 0..Len(catalog)}
        \ {l \in {SubSeq(catalog, i, j) : i \in 1..(Len(catalog) + 1), j \in 0..Len(catalog)} :
               Len(l) > max}

\* How the server may spread and fail a listing of the wiki: in one response
\* or two, every request answered or one of them failing.
WikiListings(endpoint, items) ==
    {Listing(endpoint, items, <<Len(items)>>, [i \in 1..2 |-> "api"], NoKey, TRUE,
             failAt, HttpError(500)) : failAt \in 0..1}
        \cup (IF items = <<>> THEN {}
              ELSE {Listing(endpoint, items, <<1, Len(items) - 1>>, [i \in 1..2 |-> "api"],
                            NoKey, TRUE, failAt, HttpError(500)) : failAt \in {0, 2}})

VARIABLES
    server,       \* the listing the server holds for the fetch in progress
    fetch,        \* the paginated fetch in progress
    pc,           \* where main is: "start", "get_spaces", "filter", "spaces",
                  \* "list_pages", "pages", "content", "attachments", "download",
                  \* "convert", "write_md"; "returned", "done", "crashed" at its end
    exit,         \* the process's exit status (-1 while it runs)
    email, token, \* os.getenv("CONFL_USER_EMAIL"), os.getenv("CONFL_API_TOKEN")
    argSpaces,    \* args.spaces
    spaces, sidx, \* main's spaces, and the place of `space` in it
    pages, pidx,  \* main's pages, and the place of `page` in it
    html,         \* export_page_content's html_content
    attachments, aidx,  \* its attachments, and the place of `attachment` in it
    markdown,     \* its markdown_content
    fs,           \* the file system
    wiki,         \* how many more pages and attachments the wiki holds
    log,          \* what the run did: the calls and writes made outside the loop
                  \* over the spaces (run), for the space log.sidx (space), and in
                  \* the export of its page log.pidx (page, until the loop over
                  \* its pages ends); what an earlier space went through (before)
    input,        \* the argument of a text function called on its own
    output        \* what it returned

pagVars == <<server, fetch>>
textVars == <<input, output>>
runVars == <<pc, exit, email, token, argSpaces, spaces, sidx, pages, pidx, html,
             attachments, aidx, markdown, fs, wiki, log>>
vars == <<server, fetch, pc, exit, email, token, argSpaces, spaces, sidx, pages, pidx,
          html, attachments, aidx, markdown, fs, wiki, log, input, output>>

SpacesEndpoint == <<"/spaces">>
PagesEndpoint(space_id) == <<"/spaces", "/">> \o space_id \o <<"/pages">>
AttachmentsEndpoint(page_id) == <<"/pages", "/">> \o page_id \o <<"/attachments">>

\* ------------------------------------------------------------------- the run
Event(ev, path) == [ev |-> ev, path |-> path]
NoLog == [run |-> <<>>, space |-> <<>>, page |-> <<>>, sidx |-> 0, pidx |-> 0,
          before |-> {}]

\* A run that has not started: what main's variables hold is not read.
Idle(p) ==
    /\ pc = p
    /\ exit = -1
    /\ spaces = PyNone /\ sidx = 0
    /\ pages = PyNone /\ pidx = 0
    /\ html = PyNoStr
    /\ attachments = PyNone /\ aidx = 0
    /\ markdown = PyNoStr
    /\ fs = NoFiles
    /\ wiki = [pages |-> MaxWikiPages, attachments |-> MaxWikiAttachments]
    /\ log = NoLog

\* No text function is called on its own.
NoText == input = <<>> /\ output = <<>>

EnvValues == {None, <<>>, <<"set">>}
ArgValues == {None, <<"D", ",", " ", "O">>}

OutDir == << <<"out">> >>
SpaceDir(space) == JoinPath(OutDir, Sanitize(Get(space.name, <<"Untitled_Space">>)))
PageDir(space, page) ==
    JoinPath(SpaceDir(space), Sanitize(Get(page.title, <<"Untitled", " ", "Page">>)))
AttachmentsDir(page_dir) == JoinPath(page_dir, <<"attachments">>)
FilePath(attachments_dir, file_name) == JoinPath(attachments_dir, file_name)
MdPath(page_dir) == JoinPath(page_dir, <<"page.md">>)

LogRun(es) == [log EXCEPT !.run = @ \o es]
LogSpace(es) == [log EXCEPT !.space = @ \o es]
LogPage(es) == [log EXCEPT !.page = @ \o es]

InitRun ==
    /\ Idle("start")
    /\ NoText
    /\ email \in EnvValues
    /\ token \in EnvValues
    /\ argSpaces \in ArgValues
    /\ server = Listing(SpacesEndpoint, <<>>, <<0>>, <<"api">>, NoKey, TRUE, 0, TransportError)
    /\ fetch = FnFetch(SpacesEndpoint, server)

\* MissingCreds as if the test were `not api_token and not user_email`.
MissingCreds_And(user_email, api_token) == ~Truthy(api_token) /\ ~Truthy(user_email)

\* main, line 210: `not api_token or not user_email`.
MissingCreds(user_email, api_token) == ~Truthy(api_token) \/ ~Truthy(user_email)

\* main, lines 208-212.
CheckCreds ==
    /\ pc = "start"
    /\ IF MissingCreds(email, token)
       THEN pc' = "returned" /\ exit' = 0
       ELSE pc' = "get_spaces" /\ exit' = exit
    /\ UNCHANGED <<pagVars, textVars, email, token, argSpaces, spaces, sidx, pages, pidx, html,
                   attachments, aidx, markdown, fs, wiki, log>>

\* main, lines 214-215.
GetSpaces ==
    /\ pc = "get_spaces"
    /\ \E items \in Runs(SpaceCatalog, MaxSpaces) :
         \E srv \in WikiListings(SpacesEndpoint, items) :
           LET v == FnFetch(SpacesEndpoint, srv).value
           IN  /\ spaces' = v
               /\ log' = LogRun(<<Event(IF v.none THEN "get_spaces:none"
                                        ELSE IF v.list = <<>> THEN "get_spaces:empty"
                                        ELSE "get_spaces:list",
                                        [i \in 1..Len(v.list) |-> v.list[i].key])>>)
    /\ pc' = "filter"
    /\ UNCHANGED <<pagVars, textVars, exit, email, token, argSpaces, sidx, pages, pidx, html,
                   attachments, aidx, markdown, fs, wiki>>

\* main, lines 217-224, and its end when `spaces` is None or empty.
Filter ==
    /\ pc = "filter"
    /\ IF TruthyList(spaces)
       THEN /\ spaces' = PyList(FilterSpaces(spaces.list, argSpaces))
            /\ fs' = MakeDirs(fs, OutDir)
            /\ log' = LogRun(<<Event(IF FilterSpaces(spaces.list, argSpaces) = <<>>
                                     THEN "print:Found 0 spaces"
                                     ELSE "print:Found spaces", <<>>),
                               Event("makedirs", OutDir)>>)
            /\ sidx' = 1
            /\ pc' = "spaces"
            /\ exit' = exit
       ELSE /\ pc' = "returned"
            /\ exit' = 0
            /\ UNCHANGED <<spaces, fs, log, sidx>>
    /\ UNCHANGED <<pagVars, textVars, email, token, argSpaces, pages, pidx, html, attachments,
                   aidx, markdown, wiki>>

\* NoSpaceId as if the key were tested, not the id.
NoSpaceId_Key(space) == ~Truthy(space.key)

\* AfterNoPages as if the loop were left (`break`).
AfterNoPages_Break(i, n) == n + 1

\* main, line 236: `not space_id`.
NoSpaceId(space) == ~Truthy(space.id)

\* main, line 244: `continue` after a space whose pages are None or empty.
AfterNoPages(i, n) == i + 1

\* main, lines 226-238: the next space's directory, and the check of its id.
NextSpace ==
    /\ pc = "spaces"
    /\ sidx <= Len(spaces.list)
    /\ LET space == spaces.list[sidx]
           space_dir == SpaceDir(space)
       IN  /\ fs' = MakeDirs(fs, space_dir)
           /\ IF NoSpaceId(space)
              THEN /\ log' = [log EXCEPT !.space = <<Event("makedirs", space_dir),
                                                     Event("print:No ID found", <<>>)>>,
                                         !.page = <<>>, !.sidx = sidx, !.pidx = 0,
                                         !.before = @ \cup {"no_id"}]
                   /\ sidx' = sidx + 1
                   /\ pc' = "spaces"
              ELSE /\ log' = [log EXCEPT !.space = <<Event("makedirs", space_dir)>>,
                                         !.page = <<>>, !.sidx = sidx, !.pidx = 0]
                   /\ sidx' = sidx
                   /\ pc' = "list_pages"
    /\ UNCHANGED <<pagVars, textVars, exit, email, token, argSpaces, spaces, pages, pidx, html,
                   attachments, aidx, markdown, wiki>>

\* main, lines 240-246.
ListPages ==
    /\ pc = "list_pages"
    /\ LET space_id == spaces.list[sidx].id
           endpoint == PagesEndpoint(space_id)
       IN  \E items \in Runs(PageCatalog, wiki.pages) :
             \E srv \in WikiListings(endpoint, items) :
               LET v == FnFetch(endpoint, srv).value
               IN  /\ pages' = v
                   /\ wiki' = [wiki EXCEPT !.pages = @ - Len(v.list)]
                   /\ IF TruthyList(v)
                      THEN /\ log' = LogSpace(<<Event("get_pages_for_space:list", <<space_id>>)>>)
                           /\ pidx' = 1
                           /\ sidx' = sidx
                           /\ pc' = "pages"
                      ELSE /\ log' = [LogSpace(<<Event(IF v.none THEN "get_pages_for_space:none"
                                                                 ELSE "get_pages_for_space:list",
                                                       <<space_id>>),
                                                 Event("print:No pages found", <<>>)>>)
                                        EXCEPT !.before = @ \cup (IF v.none THEN {"list_failed"}
                                                                            ELSE {})]
                           /\ pidx' = pidx
                           /\ sidx' = AfterNoPages(sidx, Len(spaces.list))
                           /\ pc' = "spaces"
    /\ UNCHANGED <<pagVars, textVars, exit, email, token, argSpaces, spaces, html, attachments,
                   aidx, markdown, fs>>

\* main, lines 247-253: the next page's directory, and the call of
\* export_page_content.
NextPage ==
    /\ pc = "pages"
    /\ pidx <= Len(pages.list)
    /\ LET page == pages.list[pidx]
           page_dir == PageDir(spaces.list[sidx], page)
       IN  /\ fs' = MakeDirs(fs, page_dir)
           /\ log' = [LogSpace(<<Event("makedirs", page_dir),
                                 Event("export_page_content", <<page.id>>)>>)
                        EXCEPT !.page = <<>>, !.pidx = pidx]
    /\ pc' = "content"
    /\ UNCHANGED <<pagVars, textVars, exit, email, token, argSpaces, spaces, sidx, pages, pidx,
                   html, attachments, aidx, markdown, wiki>>

\* The end of `for page in pages`.
EndPages ==
    /\ pc = "pages"
    /\ pidx > Len(pages.list)
    /\ sidx' = sidx + 1
    /\ log' = [log EXCEPT !.page = <<>>]
    /\ pc' = "spaces"
    /\ UNCHANGED <<pagVars, textVars, exit, email, token, argSpaces, spaces, pages, pidx, html,
                   attachments, aidx, markdown, fs, wiki>>

\* The end of `for space in spaces`, line 255, and main's return: its frame
\* is gone, and what is left is the file system, the exit status and what
\* the run did outside the loop.
Finish ==
    /\ pc = "spaces"
    /\ sidx > Len(spaces.list)
    /\ log' = [NoLog EXCEPT !.run = log.run \o <<Event("print:Done", <<>>)>>]
    /\ pc' = "done"
    /\ exit' = 0
    /\ spaces' = PyNone /\ sidx' = 0
    /\ pages' = PyNone /\ pidx' = 0
    /\ UNCHANGED <<pagVars, textVars, email, token, argSpaces, html, attachments, aidx, markdown,
                   fs, wiki>>

\* What export_page_content's return leaves of its frame, and main going on.
Returned(h, a, i, m) == h = PyNoStr /\ a = PyNone /\ i = 0 /\ m = PyNoStr

ContentEvent(v) == IF v.none THEN "get_page_content:none"
                   ELSE IF v.text = <<>> THEN "get_page_content:empty"
                   ELSE "get_page_content:ok"

\* NoContent as if the test were `html_content is None`.
NoContent_IsNone(html_content) == html_content.none

\* export_page_content, line 169: `not html_content`.
NoContent(html_content) == ~TruthyStr(html_content)

\* export_page_content, lines 168-171; get_page_content answers None (the
\* request failed, or the body has no value), "" or the page's body.
GetContent ==
    /\ pc = "content"
    /\ LET page_id == pages.list[pidx].id
       IN  \E v \in {PyNoStr, PyStr(<<>>), PyStr(PageBody)} :
             IF ~NoContent(v)
             THEN /\ html' = v
                  /\ log' = LogPage(<<Event(ContentEvent(v), <<page_id>>)>>)
                  /\ pc' = "attachments"
                  /\ UNCHANGED <<pidx, attachments, aidx, markdown>>
             ELSE /\ log' = LogPage(<<Event(ContentEvent(v), <<page_id>>),
                                      Event("print:No content found", <<>>)>>)
                  /\ Returned(html', attachments', aidx', markdown')
                  /\ pidx' = pidx + 1
                  /\ pc' = "pages"
    /\ UNCHANGED <<pagVars, textVars, exit, email, token, argSpaces, spaces, sidx, pages, fs, wiki>>

\* export_page_content, lines 174-180.
ListAttachments ==
    /\ pc = "attachments"
    /\ LET page == pages.list[pidx]
           attachments_dir == AttachmentsDir(PageDir(spaces.list[sidx], page))
           endpoint == AttachmentsEndpoint(page.id)
       IN  \E items \in Runs(AttachmentCatalog, wiki.attachments) :
             \E srv \in WikiListings(endpoint, items) :
               LET v == FnFetch(endpoint, srv).value
               IN  /\ attachments' = v
                   /\ wiki' = [wiki EXCEPT !.attachments = @ - Len(v.list)]
                   /\ IF TruthyList(v)
                      THEN /\ fs' = MakeDirs(fs, attachments_dir)
                           /\ log' = LogPage(<<Event("get_page_attachments:list", <<page.id>>),
                                               Event("makedirs", attachments_dir)>>)
                           /\ aidx' = 1
                           /\ pc' = "download"
                      ELSE /\ log' = LogPage(<<Event(IF v.none THEN "get_page_attachments:none"
                                                          ELSE "get_page_attachments:empty",
                                                          <<page.id>>)>>)
                           /\ pc' = "convert"
                           /\ UNCHANGED <<fs, aidx>>
    /\ UNCHANGED <<pagVars, textVars, exit, email, token, argSpaces, spaces, sidx, pages, pidx,
                   html, markdown>>

\* How a download ends: the whole body is read ("ok"), the request fails
\* before any of it is ("http_error": raise_for_status, or no connection), or
\* iter_content raises a RequestException part way ("stream_error").
DownloadOutcomes == {"ok", "http_error", "stream_error"}

\* AfterAttachment as if the loop were left after its first turn.
AfterAttachment_Break(i, n) == "convert"

\* Where export_page_content goes after the i-th of n attachments.
AfterAttachment(i, n) == IF i < n THEN "download" ELSE "convert"

\* export_page_content, lines 182-189, for one attachment, with
\* download_attachment; open() raising OSError ends the run.
Download ==
    /\ pc = "download"
    /\ LET attachment == attachments.list[aidx]
           attachments_dir == AttachmentsDir(PageDir(spaces.list[sidx], pages.list[pidx]))
           file_name == Get(attachment.title, None)
           download_link == Get(attachment.link, None)
           file_path == FilePath(attachments_dir, file_name)
           request(outcome) == Event("download_attachment:" \o outcome, <<download_link>>)
           next == /\ aidx' = aidx + 1
                   /\ pc' = AfterAttachment(aidx, Len(attachments.list))
                   /\ exit' = exit
       IN  IF Truthy(file_name) /\ Truthy(download_link)
           THEN \E outcome \in DownloadOutcomes :
                  IF outcome = "http_error"
                  THEN /\ log' = LogPage(<<request(outcome),
                                           Event("print:Error downloading", <<>>)>>)
                       /\ fs' = fs
                       /\ next
                  ELSE IF ~CanOpen(fs, file_path)
                  THEN /\ log' = LogPage(<<request(outcome), Event("raise:OSError", file_path)>>)
                       /\ fs' = fs
                       /\ pc' = "crashed"
                       /\ exit' = 1
                       /\ aidx' = aidx
                  ELSE /\ fs' = WriteFile(fs, file_path,
                                          AttachmentData(download_link, outcome = "ok"))
                       /\ log' = LogPage(<<request(outcome), Event("write", file_path),
                                           IF outcome = "ok"
                                           THEN Event("print:Downloaded", file_path)
                                           ELSE Event("print:Error downloading", <<>>)>>)
                       /\ next
           ELSE /\ next
                /\ UNCHANGED <<fs, log>>
    /\ UNCHANGED <<pagVars, textVars, email, token, argSpaces, spaces, sidx, pages, pidx, html,
                   attachments, markdown, wiki>>

\* export_page_content, lines 192-194, with html_to_markdown.
Convert ==
    /\ pc = "convert"
    /\ \E outcome \in PandocOutcomes :
         LET modified_html == RewriteLinks(html.text)
             markdown_content == HtmlToMarkdown(modified_html, outcome)
             call == Event("html_to_markdown:" \o outcome, <<>>)
         IN  IF TruthyStr(markdown_content)
             THEN /\ markdown' = markdown_content
                  /\ log' = LogPage(<<call>>)
                  /\ pc' = "write_md"
                  /\ UNCHANGED <<pidx, html, attachments, aidx>>
             ELSE /\ log' = LogPage(IF markdown_content.none
                                    THEN <<call, Event("print:Error during pandoc", <<>>)>>
                                    ELSE <<call>>)
                  /\ Returned(html', attachments', aidx', markdown')
                  /\ pidx' = pidx + 1
                  /\ pc' = "pages"
    /\ UNCHANGED <<pagVars, textVars, exit, email, token, argSpaces, spaces, sidx, pages, fs, wiki>>

\* export_page_content, lines 195-198; open() raising OSError ends the run.
WriteMd ==
    /\ pc = "write_md"
    /\ LET md_file_path == MdPath(PageDir(spaces.list[sidx], pages.list[pidx]))
       IN  IF CanOpen(fs, md_file_path)
           THEN /\ fs' = WriteFile(fs, md_file_path, MarkdownData(markdown.text))
                /\ log' = LogPage(<<Event("write", md_file_path)>>)
                /\ Returned(html', attachments', aidx', markdown')
                /\ pidx' = pidx + 1
                /\ pc' = "pages"
                /\ exit' = exit
           ELSE /\ log' = LogPage(<<Event("raise:OSError", md_file_path)>>)
                /\ pc' = "crashed"
                /\ exit' = 1
                /\ UNCHANGED <<fs, pidx, html, attachments, aidx, markdown>>
    /\ UNCHANGED <<pagVars, textVars, email, token, argSpaces, spaces, sidx, pages, wiki>>

Next ==
    \/ CheckCreds \/ GetSpaces \/ Filter \/ NextSpace \/ ListPages \/ NextPage
    \/ EndPages \/ Finish \/ GetContent \/ ListAttachments \/ Download \/ Convert
    \/ WriteMd

Spec == InitRun /\ [][Next]_vars

\* ------------------------------------------------- a paginated fetch, stepwise
\* What a caller of _paginated_get may give as request parameters.
CallerParams == {NoParams, {"limit=250"}}

InitPag ==
    /\ \E n \in 0..MaxItems, k \in 1..MaxPages :
         \E sizes \in Splits(n, k), styles \in [1..k -> LinkStyles],
            lastNext \in {NoKey, None}, failure \in Failures(k) :
           \E emptyKey \in IF \E i \in 1..k : sizes[i] = 0 THEN BOOLEAN ELSE {TRUE} :
             /\ styles[1] = "api"
             /\ server = Listing(SpacesEndpoint, [i \in 1..n |-> i], sizes, styles,
                                 lastNext, emptyKey, failure.at, failure.err)
    /\ fetch \in {FnStart(SpacesEndpoint)}
                    \cup {ClStart(SpacesEndpoint, kwargs) : kwargs \in CallerParams}
    /\ Idle("off")
    /\ NoText
    /\ email = None /\ token = None /\ argSpaces = None

\* One request of get_spaces.
FnRequest ==
    /\ fetch.impl = "functional"
    /\ fetch.state = "loop"
    /\ fetch' = FnIter(fetch, server)
    /\ UNCHANGED <<server, runVars, textVars>>

\* One request of ConfluenceClient.get_spaces.
ClRequest ==
    /\ fetch.impl = "client"
    /\ fetch.state = "loop"
    /\ fetch' = ClIter(fetch, server)
    /\ UNCHANGED <<server, runVars, textVars>>

NextPag == FnRequest \/ ClRequest

SpecPag == InitPag /\ [][NextPag]_vars

\* ------------------------------------------- the text functions, on their own
\* The most tags of a document, the most characters of a name.
MaxTags == 2
MaxNameLen == 2

\* The attribute values of a tag: none, and links with the attachment marker
\* before a query string, without a query string, not at all, and after a
\* question mark only.
Links ==
    {NoKey,
     <<"https:", "/", "/", "host", "/", "download", "/", "attachments", "/", "123", "/",
       "f.png", "?", "x=1">>,
     <<"/", "download", "/", "attachments", "/", "g.png">>,
     <<"https:", "/", "/", "host", "/", "about">>,
     <<"/", "p", "?", "u=", "/", "download", "/", "attachments", "/", "h.png", "?", "y">>}
Tags ==
    [name : {"img", "a", "p"}, src : Links, href : {NoKey}]
        \cup [name : {"img", "a", "p"}, src : {NoKey}, href : Links]
        \cup [name : {"img", "a"}, src : {<<"/", "download", "/", "attachments", "/", "g.png">>},
              href : {<<"/", "download", "/", "attachments", "/", "g.png">>}]
NameChars == BadChars \cup {" ", "a", "_"}
SeqsUpTo(S, n) == UNION {[1..k -> S] : k \in 0..n}

InitText ==
    /\ \/ Idle("rewrite_links") /\ input \in SeqsUpTo(Tags, MaxTags)
       \/ Idle("names") /\ input \in SeqsUpTo(NameChars, MaxNameLen)
    /\ output = <<>>
    /\ email = None /\ token = None /\ argSpaces = None
    /\ server = Listing(SpacesEndpoint, <<>>, <<0>>, <<"api">>, NoKey, TRUE, 0, TransportError)
    /\ fetch = FnFetch(SpacesEndpoint, server)

\* rewrite_links(input).
RewriteStep ==
    /\ pc = "rewrite_links"
    /\ output' = RewriteLinks(input)
    /\ pc' = "rewritten"
    /\ UNCHANGED <<pagVars, input, exit, email, token, argSpaces, spaces, sidx, pages, pidx,
                   html, attachments, aidx, markdown, fs, wiki, log>>

\* The paths main and export_page_content build for a space named `input`,
\* a page of it titled `input` and an attachment of it titled `input`.
NameStep ==
    /\ pc = "names"
    /\ LET space == [id |-> NoKey, key |-> NoKey, name |-> input]
           page == [id |-> NoKey, title |-> input]
           page_dir == PageDir(space, page)
       IN  output' = [sanitized |-> Sanitize(input),
                      space_dir |-> SpaceDir(space),
                      page_dir |-> page_dir,
                      file_path |-> FilePath(AttachmentsDir(page_dir), input)]
    /\ pc' = "named"
    /\ UNCHANGED <<pagVars, input, exit, email, token, argSpaces, spaces, sidx, pages, pidx,
                   html, attachments, aidx, markdown, fs, wiki, log>>

NextText == RewriteStep \/ NameStep

SpecText == InitText /\ [][NextText]_vars

\* ===================================================================== claims
Range(seq) == {seq[i] : i \in 1..Len(seq)}
HasEvent(events, names) == \E i \in 1..Len(events) : events[i].ev \in names

\* The requests of the fetch that the server did not answer with a listing page.
FailedRequests ==
    {i \in 1..Len(fetch.reqs) : Serve(server, fetch.reqs[i]).kind # "ok"}

\* C1: a paginated fetch that meets no failure returns exactly the items of the
\* server's listing, each once and in the server's order, however the server
\* spread them over responses (one response, several, or none with items).
C1_AllItemsInOrder ==
    (fetch.state # "loop" /\ FailedRequests = {})
        => (fetch.state = "returned" /\ fetch.value = PyList(server.items))

\* The client fetched a listing of three items over three responses.
C1_Witness ==
    /\ fetch.impl = "client"
    /\ fetch.state = "returned"
    /\ FailedRequests = {}
    /\ Len(fetch.reqs) = 3
    /\ fetch.value.list = <<1, 2, 3>>

\* C2: once a request of a paginated fetch has failed, on the first page or a
\* later one, the fetch is over and hands back no list: the client has raised a
\* ConfluenceAPIError (carrying the status of a failed HTTP response), the
\* functional fetcher returns None; the items of earlier pages are not returned.
C2_NoPartialList ==
    FailedRequests # {} =>
        /\ fetch.value = PyNone
        /\ IF fetch.impl = "client"
           THEN /\ fetch.state = "raised"
                /\ LET resp == Serve(server, fetch.reqs[Len(fetch.reqs)])
                   IN  resp.kind = "http" => fetch.status = resp.status
           ELSE fetch.state = "returned"

\* A request failed after an earlier page's items had been accumulated.
C2_Witness ==
    /\ FailedRequests # {}
    /\ fetch.impl = "functional"
    /\ Len(fetch.acc) >= 2
    /\ Len(fetch.reqs) >= 2

\* The place of the run: the space and page that log.space and log.page tell of.
SpaceDone == log.sidx >= 1 /\ sidx = log.sidx + 1 /\ pc = "spaces"
Exported ==
    LET calls == SelectSeq(log.space, LAMBDA e : e.ev = "export_page_content")
    IN  [i \in 1..Len(calls) |-> calls[i].path]
PageIds(list) == [i \in 1..Len(list) |-> <<list[i].id>>]
Terminated == pc \in {"returned", "done", "crashed"}

\* C3: in a run whose spaces listing succeeded and selected a space, no error
\* of a page or an attachment (content fetch, attachment listing, download,
\* file write, conversion) stops the run: it ends at Done, and every space
\* whose pages were listed had export_page_content called once per page, in
\* listing order.
C3_ErrorsNeverStopRun ==
    HasEvent(log.run, {"print:Found spaces"}) =>
        /\ Terminated => pc = "done"
        /\ (SpaceDone /\ HasEvent(log.space, {"get_pages_for_space:list"}))
               => Exported = PageIds(pages.list)

\* C4: a failure downloading one attachment of a page does not abort the page:
\* the export goes on to the other attachments, those that are downloaded are
\* written, and page.md is produced when the conversion succeeds.
DownloadFailed ==
    \E i \in 1..Len(log.page) :
        \/ log.page[i].ev \in {"download_attachment:http_error", "print:Error downloading"}
        \/ /\ log.page[i].ev = "raise:OSError"
           /\ i > 1
           /\ log.page[i - 1].ev \in {"download_attachment:ok", "download_attachment:stream_error"}
C4_DownloadFailureIsolated ==
    DownloadFailed =>
        /\ pc # "crashed"
        /\ \A i \in 1..Len(log.page) :
              log.page[i].ev = "download_attachment:ok"
                  => (i < Len(log.page) /\ log.page[i + 1].ev = "write")
        /\ (pc = "pages" /\ HasEvent(log.page, {"html_to_markdown:ok"}))
               => log.page[Len(log.page)].ev = "write"

\* C5: when the content fetch of a page fails or gives an empty body, the
\* export of that page does nothing more: no directory made, no file written,
\* no attachment listed or downloaded, no conversion; and main goes on to the
\* next page.
ContentMissing ==
    HasEvent(log.page, {"get_page_content:none", "get_page_content:empty"})
C5_NoContentNoWrites ==
    ContentMissing =>
        /\ Len(log.page) = 2
        /\ log.page[2].ev = "print:No content found"
        /\ Returned(html, attachments, aidx, markdown)
        /\ pc = "pages"
        /\ sidx = log.sidx
        /\ pidx = log.pidx + 1

\* The first of two pages had no content, and main is at the second.
C5_Witness ==
    /\ ContentMissing
    /\ pc = "pages"
    /\ log.pidx = 1
    /\ pidx = 2
    /\ Len(pages.list) = 2

\* C6: when the conversion fails (pandoc exits non-zero or is not found), the
\* export returns without writing page.md and without raising; whatever
\* page.md holds is the whole output of a conversion that succeeded.
PageMarkdown == Pandoc(RewriteLinks(PageBody))
ConversionFailed ==
    HasEvent(log.page, {"html_to_markdown:exit_nonzero", "html_to_markdown:not_found"})
C6_OnlyCompleteMarkdown ==
    /\ ConversionFailed =>
          /\ log.page[Len(log.page)].ev = "print:Error during pandoc"
          /\ ~HasEvent(SubSeq(log.page, Len(log.page) - 1, Len(log.page)), {"write"})
          /\ Returned(html, attachments, aidx, markdown)
          /\ pc = "pages"
    /\ pc = "write_md" =>
          /\ log.page[Len(log.page)].ev = "html_to_markdown:ok"
          /\ markdown = PyStr(Pandoc(RewriteLinks(html.text)))
    /\ \A f \in fs.files :
          f.kind = "markdown" => (f.complete /\ f.body = PageMarkdown)

\* The conversion of a page failed after one of its attachments was written.
C6_Witness ==
    /\ ConversionFailed
    /\ HasEvent(log.page, {"write"})
    /\ pc = "pages"

\* C7: a run whose spaces listing fails, or that is left with no space after
\* the filter, ends with a non-zero exit status having made no directory but
\* the output directory; and no other run ends with a non-zero status.
NoSpaces ==
    HasEvent(log.run, {"get_spaces:none", "get_spaces:empty", "print:Found 0 spaces"})
C7_FatalOnlyWithoutSpaces ==
    Terminated =>
        /\ NoSpaces => (exit # 0 /\ fs.dirs \subseteq {OutDir})
        /\ exit # 0 => NoSpaces

\* C8: when the page listing of a space fails, that space is abandoned (no
\* page directory, no export) and main goes on to the next space; a space
\* that comes after it gets its directory, its listing and an export of every
\* listed page, in order.
ListingFailed == HasEvent(log.space, {"get_pages_for_space:none"})
C8_OnlyThatSpaceAbandoned ==
    /\ ListingFailed =>
          /\ Len(log.space) = 3
          /\ log.page = <<>>
          /\ SpaceDone
    /\ ("list_failed" \in log.before /\ log.sidx >= 1 /\ ~ListingFailed) =>
          /\ log.space[1] = Event("makedirs", SpaceDir(spaces.list[log.sidx]))
          /\ SpaceDir(spaces.list[log.sidx]) \in fs.dirs
          /\ (Truthy(spaces.list[log.sidx].id) /\ pc # "list_pages")
                => HasEvent(log.space, {"get_pages_for_space:list"})
          /\ (SpaceDone /\ HasEvent(log.space, {"get_pages_for_space:list"}))
                => Exported = PageIds(pages.list)

\* After a space whose listing failed, the pages of the next were exported.
C8_Witness ==
    /\ "list_failed" \in log.before
    /\ ~ListingFailed
    /\ SpaceDone
    /\ Len(Exported) >= 1

\* C9: a selected space without an id is skipped: its directory is made, then
\* no page listing is requested and no page directory made for it, and main
\* goes on to the next space.
C9_SpaceWithoutIdSkipped ==
    (log.sidx >= 1 /\ ~Truthy(spaces.list[log.sidx].id)) =>
        /\ log.space = <<Event("makedirs", SpaceDir(spaces.list[log.sidx])),
                         Event("print:No ID found", <<>>)>>
        /\ log.page = <<>>
        /\ SpaceDone

\* After a space without an id, the pages of the next space were listed.
C9_Witness ==
    /\ "no_id" \in log.before
    /\ log.sidx = 2
    /\ HasEvent(log.space, {"export_page_content"})

\* C10: when either credential variable is unset or empty, main returns
\* having made no request and no directory.
C10_NoCredsNoWork ==
    (~Truthy(email) \/ ~Truthy(token)) =>
        /\ pc \in {"start", "returned"}
        /\ log = NoLog
        /\ fs = NoFiles

\* The user is set and the token is empty; main has returned.
C10_Witness ==
    /\ email = <<"set">>
    /\ token = <<>>
    /\ pc = "returned"

\* C11: the spaces main goes through are the fetched spaces whose key is one of
\* the requested keys (the comma-separated parts of --spaces, trimmed), in
\* the order of the listing, and every fetched space when --spaces is not
\* given; the directory made and the listing requested for a space are those
\* of the space main is at.
FetchedKeys == log.run[1].path
\* A key is one token: the requested keys are the tokens of --spaces that are
\* neither a comma nor a space.
RequestedKeys == {<<argSpaces[i]>> : i \in 1..Len(argSpaces)} \ {<<",">>, <<" ">>}
KeysOf(list) == [i \in 1..Len(list) |-> list[i].key]
InLoop == pc \notin {"start", "get_spaces", "filter", "returned", "done"}
C11_OnlyRequestedSpaces ==
    InLoop =>
        /\ KeysOf(spaces.list) =
               IF argSpaces = None THEN FetchedKeys
               ELSE SelectSeq(FetchedKeys, LAMBDA k : k \in RequestedKeys)
        /\ \A i \in 1..Len(spaces.list) : spaces.list[i] \in Range(SpaceCatalog)
        /\ sidx \in {log.sidx, log.sidx + 1}
        /\ log.sidx >= 1 =>
              LET space_dir == SpaceDir(spaces.list[log.sidx])
              IN  /\ log.space[1] = Event("makedirs", space_dir)
                  /\ \A i \in 2..Len(log.space) :
                        /\ log.space[i].ev = "makedirs" =>
                              Parent(log.space[i].path) = space_dir
                        /\ log.space[i].ev \in {"get_pages_for_space:list",
                                                 "get_pages_for_space:none"} =>
                              log.space[i].path = <<spaces.list[log.sidx].id>>

\* Of three fetched spaces two were requested, and the pages of the second
\* of them were listed.
C11_Witness ==
    /\ InLoop
    /\ argSpaces # None
    /\ Len(FetchedKeys) = 3
    /\ Len(spaces.list) = 2
    /\ log.sidx = 2
    /\ HasEvent(log.space, {"get_pages_for_space:list"})

\* C12: whatever the export of a page creates or writes is the page's page.md,
\* its attachments directory or a file under that directory, for every
\* attachment title; and none of it lies in the directory of another page of
\* the listing.
CurrentPageDir == PageDir(spaces.list[log.sidx], pages.list[log.pidx])
PageWrites == {i \in 1..Len(log.page) : log.page[i].ev \in {"write", "makedirs"}}
C12_WritesOnlyUnderPageDir ==
    (log.pidx >= 1) =>
        \A i \in PageWrites :
            LET at == Resolve(log.page[i].path)
            IN  /\ \/ at = MdPath(CurrentPageDir)
                   \/ at = AttachmentsDir(CurrentPageDir)
                   \/ /\ log.page[i].ev = "write"
                      /\ IsPrefix(AttachmentsDir(CurrentPageDir), at)
                /\ \A j \in 1..Len(pages.list) :
                      j # log.pidx =>
                          ~IsPrefix(PageDir(spaces.list[log.sidx], pages.list[j]), at)

\* C13: the directory of a page holds an attachments directory only if the
\* attachment listing of that page gave at least one attachment.
InPage == log.pidx >= 1 /\ pc # "spaces"
C13_AttachmentsDirOnlyWithAttachments ==
    InPage =>
        (AttachmentsDir(CurrentPageDir) \in fs.dirs
            => HasEvent(log.page, {"get_page_attachments:list"}))

\* C14: spaces, pages and attachments are gone through one at a time in
\* listing order. Within a page the steps come in the order content fetch,
\* attachment listing, downloads (every listed attachment that has a title
\* and a link, in order), link rewrite, conversion, page.md write; the pages
\* exported so far are the first of the listing, in order; every request of
\* the page in progress is for that page, and between two pages nothing of
\* export_page_content is left.
Rank(e, md_file_path) ==
    IF e.ev \in {"get_page_content:none", "get_page_content:empty", "get_page_content:ok"}
    THEN 1
    ELSE IF e.ev = "print:No content found" THEN 2
    ELSE IF e.ev \in {"get_page_attachments:none", "get_page_attachments:empty",
                      "get_page_attachments:list"} THEN 3
    ELSE IF e.ev = "makedirs" THEN 4
    ELSE IF e.ev \in {"html_to_markdown:ok", "html_to_markdown:ok_empty",
                      "html_to_markdown:exit_nonzero", "html_to_markdown:not_found"} THEN 6
    ELSE IF e.ev = "print:Error during pandoc" THEN 7
    ELSE IF e.ev \in {"write", "raise:OSError"} /\ e.path = md_file_path THEN 8
    ELSE 5
Requests(events) ==
    LET calls == SelectSeq(events, LAMBDA e : e.ev \in {"download_attachment:ok",
                                                        "download_attachment:http_error",
                                                        "download_attachment:stream_error"})
    IN  [i \in 1..Len(calls) |-> calls[i].path[1]]
Wanted(list) ==
    LET both == SelectSeq(list, LAMBDA a : a.title # NoKey /\ a.link # NoKey)
    IN  [i \in 1..Len(both) |-> both[i].link]
C14_OneAtATimeInOrder ==
    InPage =>
        /\ LET md_file_path == MdPath(CurrentPageDir)
               rank == [i \in 1..Len(log.page) |-> Rank(log.page[i], md_file_path)]
           IN  /\ \A i \in 1..(Len(log.page) - 1) : rank[i] <= rank[i + 1]
               /\ \A i \in 1..Len(log.page) :
                     rank[i] \in {1, 3} => log.page[i].path = <<pages.list[log.pidx].id>>
        /\ Exported = SubSeq(PageIds(pages.list), 1, log.pidx)
        /\ pc = "download" => Requests(log.page) = Wanted(SubSeq(attachments.list, 1, aidx - 1))
        /\ pc \in {"convert", "write_md"} => Requests(log.page) = Wanted(attachments.list)
        /\ pc = "write_md" => markdown.text = Pandoc(RewriteLinks(html.text))
        /\ pc \in {"content", "attachments", "download", "convert", "write_md"}
              => (sidx = log.sidx /\ pidx = log.pidx)
        /\ pc = "pages"
              => (sidx = log.sidx /\ pidx = log.pidx + 1
                     /\ Returned(html, attachments, aidx, markdown))

\* The second page of a listing was exported: two downloads, then page.md.
C14_Witness ==
    /\ InPage
    /\ pc = "pages"
    /\ log.pidx = 2
    /\ Len(Requests(log.page)) = 2
    /\ log.page[Len(log.page)] = Event("write", MdPath(CurrentPageDir))

\* C15: the client sends the caller's request parameters with the first
\* request of a pagination and none with the requests that follow.
C15_ParamsOnFirstRequestOnly ==
    fetch.impl = "client" =>
        \A i \in 1..Len(fetch.sent) :
            fetch.sent[i] = IF i = 1 THEN fetch.kwargs ELSE NoParams

\* C16: after a response whose next link contains the API prefix, the client
\* requests the URL whose path is that link (the endpoint it derived, under
\* the base path again), and the pagination goes on with it.
NextLink(i) == Get(Serve(server, fetch.reqs[i]).next, None)
C16_NextLinkRoundTrip ==
    fetch.impl = "client" =>
        \A i \in 1..Len(fetch.reqs) :
            (Serve(server, fetch.reqs[i]).kind = "ok" /\ Contains(NextLink(i), ApiPrefix)) =>
                IF i < Len(fetch.reqs)
                THEN fetch.reqs[i + 1] = NextLink(i)
                ELSE fetch.state = "loop" /\ BuildUrl(fetch.url) = NextLink(i)

\* C17: rewrite_links gives back the document tag by tag: the src of an img
\* and the href of an a that contain /download/attachments/ become
\* attachments/<basename>, the basename being what stands between the last
\* "/" and the first "?" of the value; everything else is as it was, and a
\* document without such a link comes back equal.
IsBasename(b, link) ==
    \E n \in 0..Len(link), m \in 0..Len(link) :
        /\ n <= m
        /\ b = SubSeq(link, n + 1, m)
        /\ n = 0 \/ link[n] = "/"
        /\ m = Len(link) \/ link[m + 1] = "?"
        /\ \A j \in 1..m : link[j] # "?"
        /\ \A j \in (n + 1)..m : link[j] # "/"
Localized(old, new) ==
    IF old # NoKey /\ Contains(old, <<"/", "download", "/", "attachments", "/">>)
    THEN /\ SubSeq(new, 1, 2) = <<"attachments", "/">>
         /\ IsBasename(SubSeq(new, 3, Len(new)), old)
    ELSE new = old
C17_LinksLocalized ==
    pc = "rewritten" =>
        /\ Len(output) = Len(input)
        /\ \A i \in 1..Len(input) :
              /\ output[i].name = input[i].name
              /\ IF input[i].name = "img" THEN Localized(input[i].src, output[i].src)
                                          ELSE output[i].src = input[i].src
              /\ IF input[i].name = "a" THEN Localized(input[i].href, output[i].href)
                                        ELSE output[i].href = input[i].href
        /\ (\A i \in 1..Len(input) :
               /\ ~(input[i].name = "img" /\ Contains(input[i].src, Marker))
               /\ ~(input[i].name = "a" /\ Contains(input[i].href, Marker)))
              => output = input

\* The spec's example was rewritten, beside a tag that was left alone.
C17_Witness ==
    /\ pc = "rewritten"
    /\ Len(input) = 2
    /\ input[1] = [name |-> "img", href |-> NoKey,
                   src |-> <<"https:", "/", "/", "host", "/", "download", "/", "attachments",
                             "/", "123", "/", "f.png", "?", "x=1">>]
    /\ output[1].src = <<"attachments", "/", "f.png">>
    /\ output[2] = input[2]
    /\ input[2].name = "a"

\* C18: sanitize_directory_name maps a name character by character, the ten
\* listed characters to "_" and every other to itself; the directory of a
\* space and of a page are named by the sanitized name and title, and the
\* path of an attachment file is built from its title as it is.
Replaced == {"<", ">", ":", "\"", "/", "\\", "|", "?", "*", " "}
Flat(path) ==
    LET RECURSIVE F(_)
        F(n) == IF n = 0 THEN <<>> ELSE F(n - 1) \o path[n]
    IN  F(Len(path))
C19_NoFileOfFailedDownload ==
    \A f \in fs.files : f.kind = "attachment" => f.complete

\* C20: against the same server, for every next link it may give, the
\* client's _paginated_get and the functional fetcher request the same URLs in
\* the same order, and return the same list of items whenever no request
\* fails.
NoRequestFailed(f) ==
    /\ f.state = "returned"
    /\ \A i \in 1..Len(f.reqs) : Serve(server, f.reqs[i]).kind = "ok"
OtherFetch ==
    IF fetch.impl = "client" THEN FnFetch(SpacesEndpoint, server)
                             ELSE ClFetch(SpacesEndpoint, server)
C20_FetchersAgree ==
    fetch.state # "loop" =>
        /\ fetch.reqs = OtherFetch.reqs
        /\ (NoRequestFailed(fetch) /\ NoRequestFailed(OtherFetch)) =>
               fetch.value = OtherFetch.value

====
